---- MODULE Spec2Model ----
(***************************************************************************)
(* Model of the stage-progression engine of the analytics API (src/app.py):*)
(* the /ingest route, its pydantic request model, and the SQL statements   *)
(* it issues against dbo.stages, dbo.barcodes and dbo.events.              *)
(*                                                                         *)
(* Every SQL statement is one step: the connection is opened with          *)
(* autocommit=True, so each statement is its own transaction and other     *)
(* server processes may run statements between any two of them.            *)
(*                                                                         *)
(* The model also covers the rolling snapshot tables of reels.db, written  *)
(* by push_to_sqlite (src/main.py) and by src/csv_to_olddata.py.           *)
(***************************************************************************)
EXTENDS Integers, Sequences, FiniteSets, TLC

(***************************************************************************)
(* Bounds of the model.                                                    *)
(***************************************************************************)
\* number of /ingest requests received in one behaviour
MaxRequests == 2
\* largest position tried by the classifier harness
MaxPos == 9
\* number of runs of the scripts that write reels.db in one behaviour
MaxRuns == 3

\* server processes (uvicorn workers) sharing the database
Workers == {"w1", "w2"}
\* the one process of a deployment that handles its requests one after another
SeqWorker == "w1"

(***************************************************************************)
(* Strings of barcodes are sequences of characters, so that str.strip()    *)
(* is computed and not assumed.                                            *)
(***************************************************************************)
Whitespace == {" "}

\* barcodes lists of request bodies, before validation
RawBatches ==
    { <<>>,
      << <<>> >>,
      << <<" ">> >>,
      << <<"A">> >>,
      << <<" ", "B", " ">> >>,
      << <<"A">>, <<" ", "B", " ">> >>,
      << <<" ", "B", " ">>, <<"A">> >>,
      << <<" ", "A">>, <<>>, <<"A">> >> }

RECURSIVE lstrip(_)
lstrip(s) ==
    IF s # <<>> /\ Head(s) \in Whitespace THEN lstrip(Tail(s)) ELSE s

RECURSIVE rstrip(_)
rstrip(s) ==
    IF s # <<>> /\ s[Len(s)] \in Whitespace
    THEN rstrip(SubSeq(s, 1, Len(s) - 1))
    ELSE s

\* mutant: only the leading whitespace is removed
strip_left(s) == lstrip(s)

strip(s) == rstrip(lstrip(s))

\* mutant: an entry equal to an earlier one is dropped
RECURSIVE cleaned_barcodes_unique(_)
cleaned_barcodes_unique(v) ==
    IF v = <<>> THEN <<>>
    ELSE LET rest == cleaned_barcodes_unique(SubSeq(v, 1, Len(v) - 1))
             b == v[Len(v)]
         IN  IF b # <<>> /\ strip(b) # <<>>
                /\ \A k \in DOMAIN rest : rest[k] # strip(b)
             THEN Append(rest, strip(b))
             ELSE rest

\* cleaned = [b.strip() for b in v if b and b.strip()]
RECURSIVE cleaned_barcodes(_)
cleaned_barcodes(v) ==
    IF v = <<>> THEN <<>>
    ELSE IF Head(v) # <<>> /\ strip(Head(v)) # <<>>
         THEN <<strip(Head(v))>> \o cleaned_barcodes(Tail(v))
         ELSE cleaned_barcodes(Tail(v))

\* IngestPayload.ensure_barcodes_nonempty, after Field(min_length=1):
\* the validated list, or <<>> when the body is rejected
ensure_barcodes_nonempty(v) ==
    IF Len(v) < 1 THEN <<>> ELSE cleaned_barcodes(v)

\* stage_name: str = Field(min_length=1)
stage_name_ok(name) == name # ""

\* IngestPayload.localize_event_time: a naive datetime gets the Chicago zone
localize_event_time(dt) ==
    IF dt.tzinfo = "None" THEN [dt EXCEPT !.tzinfo = "America/Chicago"] ELSE dt

\* datetime.isoformat(): the wall-clock reading followed by the zone's offset
isoformat(dt) ==
    <<dt.t, CASE dt.tzinfo = "UTC" -> "+00:00"
              [] dt.tzinfo = "America/Chicago" -> "-06:00"
              [] OTHER -> "">>

(***************************************************************************)
(* The stage catalog dbo.stages, provisioned out of band and only read.    *)
(***************************************************************************)
Stages ==
    { [stage_name |-> "Receiving", position |-> 0],
      [stage_name |-> "Packing",   position |-> 1],
      [stage_name |-> "Shipped",   position |-> 2] }

StageNames == { s.stage_name : s \in Stages }

Position(name) == (CHOOSE s \in Stages : s.stage_name = name).position

\* Optional[int]: the absent position
None == -1

NoStage == [stage_name |-> "", position |-> None]

\* mutant: an unknown name falls back to the first stage of the catalog
get_stage_fallback(stage_name) ==
    IF \E s \in Stages : s.stage_name = stage_name
    THEN { s \in Stages : s.stage_name = stage_name }
    ELSE { s \in Stages : s.position = 0 }

\* get_stage: the rows of SELECT ... FROM dbo.stages WHERE stage_name = ?
get_stage(stage_name) == { s \in Stages : s.stage_name = stage_name }

(***************************************************************************)
(* Request bodies.                                                         *)
(***************************************************************************)
RequestStageNames == StageNames \cup {"Unknown", ""}

EventTimes == { [t |-> 1, tzinfo |-> "None"], [t |-> 2, tzinfo |-> "UTC"] }

NoPayload == [stage_name |-> "", barcodes |-> <<>>, event_time |-> [t |-> 0, tzinfo |-> "None"]]

NoCounts == [new |-> 0, old |-> 0, same |-> 0]


NoResponse == [status |-> 0, stage |-> "", position |-> None, counts |-> NoCounts, detail |-> ""]

\* the barcodes a validated request can carry
Barcodes == { <<"A">>, <<"B">> }

(***************************************************************************)
(* State.                                                                  *)
(*   barcodes, events   the tables dbo.barcodes and dbo.events             *)
(*   clock              the wall clock read by datetime.now()              *)
(*   pc .. response     per server process: the position in the handler,   *)
(*                      the request model p, and the locals of ingest      *)
(*   nreq .. aborted    history variables used to state the properties     *)
(*   c_*                inputs and result of the classifier harness        *)
(*   NewData .. Metadata    the tables of reels.db as the connection of    *)
(*                      the running script sees them                       *)
(*   committed          the tables of reels.db as of the last commit       *)
(*   wallclock          the clock read by datetime.now() in src/main.py    *)
(*   s_pc .. last_new_timestamp   the position in push_to_sqlite, its      *)
(*                      argument and its locals                            *)
(*   nrun, prior, pushes    history variables of the snapshot properties   *)
(***************************************************************************)
VARIABLES barcodes, events, clock,
          pc, p, stage, i, pos, cls, processed, response,
          nreq, barcodes0, events0, newTally, completed, resub,
          failed, aborted,
          c_existing, c_target, c_result,
          NewData, OldData, Metadata, committed, wallclock,
          s_pc, s_rows, current_timestamp, last_new_timestamp,
          nrun, prior, pushes

store == <<barcodes, events, clock>>
locals == <<pc, p, stage, i, pos, cls, processed, response>>
history == <<nreq, barcodes0, events0, newTally, completed, resub,
             failed, aborted>>
reels == <<NewData, OldData, Metadata, committed, wallclock,
           s_pc, s_rows, current_timestamp, last_new_timestamp,
           nrun, prior, pushes>>
harness == <<c_existing, c_target, c_result, reels>>
vars == <<store, locals, history, harness>>

(***************************************************************************)
(* DB helpers of src/app.py, as functions of the table they touch.         *)
(***************************************************************************)
\* mutant: the SELECT without its WHERE clause
current_barcode_position_any(rows, barcode) ==
    { Position(rows[k].stage) :
        k \in { j \in DOMAIN rows : rows[j].stage \in StageNames } }

\* rows of: SELECT s.position FROM dbo.barcodes b JOIN dbo.stages s
\*          ON s.stage_name = b.stage WHERE b.barcode = ?
current_barcode_position(rows, barcode) ==
    { Position(rows[k].stage) :
        k \in { j \in DOMAIN rows : rows[j].barcode = barcode
                                    /\ rows[j].stage \in StageNames } }

\* mutant: any difference of position counts as progress
classify_barcode_ne(existing_pos, target_pos) ==
    IF existing_pos = None THEN "new"
    ELSE IF existing_pos # target_pos THEN "old"
    ELSE "same"

\* mutant: a report of the stage the barcode is at counts as progress
classify_barcode_le(existing_pos, target_pos) ==
    IF existing_pos = None THEN "new"
    ELSE IF existing_pos <= target_pos THEN "old"
    ELSE "same"

classify_barcode(existing_pos, target_pos) ==
    IF existing_pos = None THEN "new"
    ELSE IF existing_pos < target_pos THEN "old"
    ELSE "same"

\* mutant: the table has no uniqueness constraint
barcode_unique_violation_off(rows, barcode) == FALSE

\* the uniqueness constraint of dbo.barcodes.barcode: TRUE when an INSERT of
\* this barcode is refused by the database
barcode_unique_violation(rows, barcode) ==
    \E k \in DOMAIN rows : rows[k].barcode = barcode

\* mutant: a new barcode is inserted at the first stage of the catalog
add_new_barcode_first(rows, barcode, st, now) ==
    Append(rows, [barcode |-> barcode, stage |-> "Receiving",
                  created_date |-> now, last_updated |-> now])

\* mutant: the INSERT is never applied
add_new_barcode_lost(rows, barcode, st, now) == rows

add_new_barcode(rows, barcode, st, now) ==
    Append(rows, [barcode |-> barcode, stage |-> st.stage_name,
                  created_date |-> now, last_updated |-> now])

\* mutant: the UPDATE moves the barcode one stage on from where it is
advance_barcode_step(rows, barcode, st, now) ==
    [ k \in DOMAIN rows |->
        IF rows[k].barcode = barcode
        THEN [rows[k] EXCEPT
                !.stage = (CHOOSE s \in Stages :
                             s.position = Position(rows[k].stage) + 1).stage_name,
                !.last_updated = now]
        ELSE rows[k] ]

\* mutant: the UPDATE also resets the creation time
advance_barcode_recreate(rows, barcode, st, now) ==
    [ k \in DOMAIN rows |->
        IF rows[k].barcode = barcode
        THEN [rows[k] EXCEPT !.stage = st.stage_name, !.last_updated = now,
                             !.created_date = now]
        ELSE rows[k] ]

\* mutant: the UPDATE without its WHERE clause
advance_barcode_all(rows, barcode, st, now) ==
    [ k \in DOMAIN rows |->
        [rows[k] EXCEPT !.stage = st.stage_name, !.last_updated = now] ]

advance_barcode(rows, barcode, st, now) ==
    [ k \in DOMAIN rows |->
        IF rows[k].barcode = barcode
        THEN [rows[k] EXCEPT !.stage = st.stage_name, !.last_updated = now]
        ELSE rows[k] ]

\* mutant: the event is stamped with the time of processing
add_event_now(log, barcode, st, event_time) ==
    Append(log, [barcode |-> barcode, stage |-> st.stage_name,
                 event_time |-> <<clock, "">>])

\* mutant: a sighting already in the log is not logged again
add_event_dedupe(log, barcode, st, event_time) ==
    IF \E k \in DOMAIN log : log[k].barcode = barcode /\ log[k].stage = st.stage_name
    THEN log
    ELSE Append(log, [barcode |-> barcode, stage |-> st.stage_name,
                      event_time |-> isoformat(event_time)])

add_event(log, barcode, st, event_time) ==
    Append(log, [barcode |-> barcode, stage |-> st.stage_name,
                 event_time |-> isoformat(event_time)])

\* mutant: every barcode that is not new is updated
write_barcode_always(rows, c, barcode, st, now) ==
    CASE c = "new" -> add_new_barcode(rows, barcode, st, now)
      [] OTHER     -> advance_barcode(rows, barcode, st, now)

\* the if / elif / else of the loop body of ingest
write_barcode(rows, c, barcode, st, now) ==
    CASE c = "new" -> add_new_barcode(rows, barcode, st, now)
      [] c = "old" -> advance_barcode(rows, barcode, st, now)
      [] OTHER     -> rows

\* mutant: an advance is tallied with the entries left as they were
count_merged(counts, c) ==
    CASE c = "new" -> [counts EXCEPT !.new = @ + 1]
      [] OTHER     -> [counts EXCEPT !.same = @ + 1]

\* processed[cls] += 1
count(counts, c) ==
    CASE c = "new" -> [counts EXCEPT !.new = @ + 1]
      [] c = "old" -> [counts EXCEPT !.old = @ + 1]
      [] OTHER     -> [counts EXCEPT !.same = @ + 1]

\* for b in p.barcodes: pos / cls / write / add_event / processed[cls] += 1,
\* with no statement failing; now is the clock at the first write
RECURSIVE ingest_loop(_, _, _, _, _, _, _)
ingest_loop(rows, log, counts, st, batch, event_time, now) ==
    IF batch = <<>>
    THEN [barcodes |-> rows, events |-> log, counts |-> counts]
    ELSE LET b == Head(batch)
             found == current_barcode_position(rows, b)
             at == IF found = {} THEN None ELSE CHOOSE x \in found : TRUE
             c == classify_barcode(at, st.position)
         IN  ingest_loop(write_barcode(rows, c, b, st, now),
                         add_event(log, b, st, event_time),
                         count(counts, c), st, Tail(batch), event_time,
                         IF c = "same" THEN now ELSE now + 1)

\* the HTTPException raised for an unknown stage
not_found(name) ==
    [NoResponse EXCEPT !.status = 404, !.detail = "Stage not found"]

\* mutant: the error is swallowed and the call answers as a success
database_error_ok(e) == [NoResponse EXCEPT !.status = 200, !.detail = e]

\* the HTTPException raised from except pyodbc.Error / except Exception
database_error(e) ==
    [NoResponse EXCEPT !.status = 500, !.detail = e]

\* the body returned when the loop is over
finished(st, counts) ==
    [status |-> 200, stage |-> st.stage_name, position |-> st.position,
     counts |-> counts, detail |-> "Finished processing barcodes."]

(***************************************************************************)
(* reels.db (src/main.py, src/csv_to_olddata.py): the SQL statements as    *)
(* functions of the table they touch. NewData and OldData have no key and  *)
(* are sequences of rows in rowid order; Metadata maps a key to its value. *)
(* A table that does not exist yet is created empty by CREATE TABLE IF NOT *)
(* EXISTS before its first use, so it is modelled as an empty one.         *)
(***************************************************************************)
\* what fetchone() returns when no row matches
NoValue == <<>>

MetaKeys == {"newDataTimestamp", "oldDataTimestamp"}

\* SELECT value FROM Metadata WHERE key = ?
select_value(meta, key) == meta[key]

\* INSERT OR REPLACE INTO Metadata (key, value) VALUES (?, ?)
insert_or_replace(meta, key, value) == [meta EXCEPT ![key] = value]

\* mutant: the DELETE removes nothing
delete_from_kept(table) == table

\* DELETE FROM <table>
delete_from(table) == <<>>

\* INSERT INTO <table> SELECT * FROM <source>
insert_select(table, source) == table \o source

\* executemany("INSERT INTO <table> (...) VALUES (?, ?, ?)", rows)
executemany_insert(table, new_rows) == table \o new_rows

\* rows = [... for row in reader if row["item_code"]]
csv_rows(reader) == SelectSeq(reader, LAMBDA row : row[1] # "")

\* (item_code, available_quantity, total_quantity)
RowLists ==
    { <<>>,
      << <<"X", 1, 2>> >>,
      << <<"Y", 0, 5>>, <<"X", 1, 2>> >>,
      << <<"X", 1, 2>>, <<"X", 1, 2>> >> }

\* the records of a CSV file, one of them without an item code
CsvFiles == { <<>>, << <<"Z", 3, 3>>, <<"", 4, 4>> >> }

NoTables == [NewData |-> <<>>, OldData |-> <<>>,
             Metadata |-> [k \in MetaKeys |-> NoValue]]

NoPrior == [NewData |-> <<>>, Metadata |-> [k \in MetaKeys |-> NoValue],
            now |-> 0]

\* reels.db does not exist yet and no script runs
InitReels ==
    /\ NewData = <<>>
    /\ OldData = <<>>
    /\ Metadata = [k \in MetaKeys |-> NoValue]
    /\ committed = NoTables
    /\ wallclock = 1
    /\ s_pc = "idle"
    /\ s_rows = <<>>
    /\ current_timestamp = NoValue
    /\ last_new_timestamp = NoValue
    /\ nrun = 0
    /\ prior = NoPrior
    /\ pushes = <<>>

(***************************************************************************)
(* Initial state: empty tables, every process idle.                        *)
(***************************************************************************)
InitStore ==
    /\ barcodes = <<>>
    /\ events = <<>>
    /\ clock = 1

InitLocals ==
    /\ pc = [w \in Workers |-> "idle"]
    /\ p = [w \in Workers |-> NoPayload]
    /\ stage = [w \in Workers |-> NoStage]
    /\ i = [w \in Workers |-> 0]
    /\ pos = [w \in Workers |-> None]
    /\ cls = [w \in Workers |-> ""]
    /\ processed = [w \in Workers |-> NoCounts]
    /\ response = [w \in Workers |-> NoResponse]

NoFailed == [stage_name |-> "", barcodes |-> <<>>,
             found |-> [b \in Barcodes |-> {}], logged |-> 0]

InitHistory ==
    /\ nreq = 0
    /\ barcodes0 = <<>>
    /\ events0 = <<>>
    /\ newTally = [b \in Barcodes |-> 0]
    /\ completed = {}
    /\ resub = FALSE
    /\ failed = NoFailed
    /\ aborted = FALSE

Init ==
    /\ InitStore
    /\ InitLocals
    /\ InitHistory
    /\ c_existing = None
    /\ c_target = 0
    /\ c_result = ""
    /\ InitReels

(***************************************************************************)
(* The steps of one /ingest request in process w.                          *)
(***************************************************************************)
\* a request body arrives
Receive(w) ==
    /\ pc[w] = "idle"
    /\ (\A v \in Workers : pc[v] = "idle") => w = SeqWorker
    /\ nreq < MaxRequests
    /\ \E name \in RequestStageNames, raw \in RawBatches, et \in EventTimes :
          p' = [p EXCEPT ![w] = [stage_name |-> name, barcodes |-> raw,
                                 event_time |-> et]]
    /\ pc' = [pc EXCEPT ![w] = "validate"]
    /\ nreq' = nreq + 1
    /\ UNCHANGED <<store, stage, i, pos, cls, processed, response>>
    /\ UNCHANGED <<barcodes0, events0, newTally, completed, resub, harness>>
    /\ UNCHANGED <<failed, aborted>>

\* pydantic builds IngestPayload: the field constraints and the validators
Validate(w) ==
    /\ pc[w] = "validate"
    /\ LET cleaned == ensure_barcodes_nonempty(p[w].barcodes)
       IN  IF stage_name_ok(p[w].stage_name) /\ cleaned # <<>>
           THEN /\ p' = [p EXCEPT ![w].barcodes = cleaned,
                                  ![w].event_time = localize_event_time(@)]
                /\ pc' = [pc EXCEPT ![w] = "get_stage"]
                /\ response' = response
           ELSE /\ response' = [response EXCEPT ![w] =
                                  [NoResponse EXCEPT !.status = 422,
                                                     !.detail = "validation error"]]
                /\ pc' = [pc EXCEPT ![w] = "done"]
                /\ p' = p
    /\ UNCHANGED <<store, stage, i, pos, cls, processed>>
    /\ UNCHANGED <<nreq, newTally, completed, harness>>

\* with get_conn() as cx: stage = get_stage(cx, p.stage_name); processed = {...}
GetStage(w) ==
    /\ pc[w] = "get_stage"
    /\ LET rows == get_stage(p[w].stage_name)
       IN  IF rows = {}
           THEN /\ response' = [response EXCEPT ![w] = not_found(p[w].stage_name)]
                /\ pc' = [pc EXCEPT ![w] = "done"]
                /\ UNCHANGED <<stage, processed, i>>
           ELSE /\ stage' = [stage EXCEPT ![w] = CHOOSE s \in rows : TRUE]
                /\ processed' = [processed EXCEPT ![w] = NoCounts]
                /\ i' = [i EXCEPT ![w] = 1]
                /\ pc' = [pc EXCEPT ![w] = "read"]
                /\ response' = response
    /\ UNCHANGED <<store, p, pos, cls, history, harness>>

\* pos = current_barcode_position(cx, b); cls = classify_barcode(pos, stage.position)
Read(w) ==
    /\ pc[w] = "read"
    /\ LET rows == current_barcode_position(barcodes, p[w].barcodes[i[w]])
       IN  \E x \in (IF rows = {} THEN {None} ELSE rows) :
              /\ pos' = [pos EXCEPT ![w] = x]
              /\ cls' = [cls EXCEPT ![w] = classify_barcode(x, stage[w].position)]
    /\ pc' = [pc EXCEPT ![w] = "write"]
    /\ UNCHANGED <<store, p, stage, i, processed, response, history, harness>>

\* add_new_barcode / advance_barcode / log.info
Write(w) ==
    /\ pc[w] = "write"
    /\ LET b == p[w].barcodes[i[w]]
       IN  IF cls[w] = "new" /\ barcode_unique_violation(barcodes, b)
           THEN /\ response' = [response EXCEPT ![w] = database_error("IntegrityError")]
                /\ pc' = [pc EXCEPT ![w] = "done"]
                /\ barcodes' = barcodes
           ELSE /\ barcodes' = write_barcode(barcodes, cls[w], b, stage[w], clock)
                /\ pc' = [pc EXCEPT ![w] = "event"]
                /\ response' = response
    /\ clock' = IF cls[w] = "same" THEN clock ELSE clock + 1
    /\ UNCHANGED <<events, p, stage, i, pos, cls, processed, history, harness>>

\* add_event(cx, b, stage, p.event_time); processed[cls] += 1; next b or return
AddEvent(w) ==
    /\ pc[w] = "event"
    /\ LET b == p[w].barcodes[i[w]]
           counts == count(processed[w], cls[w])
           last == i[w] + 1 > Len(p[w].barcodes)
       IN  /\ events' = add_event(events, b, stage[w], p[w].event_time)
           /\ processed' = [processed EXCEPT ![w] = counts]
           /\ i' = [i EXCEPT ![w] = @ + 1]
           /\ pc' = [pc EXCEPT ![w] = IF last THEN "done" ELSE "read"]
           /\ response' = IF last
                          THEN [response EXCEPT ![w] = finished(stage[w], counts)]
                          ELSE response
           /\ newTally' = IF cls[w] = "new"
                          THEN [newTally EXCEPT ![b] = @ + 1]
                          ELSE newTally
           /\ completed' = IF last
                           THEN completed \cup {<<p[w].stage_name, p[w].barcodes>>}
                           ELSE completed
    /\ UNCHANGED <<barcodes, clock, p, stage, pos, cls>>
    /\ UNCHANGED <<nreq, barcodes0, events0, resub, failed, aborted, harness>>

\* a statement (or the connection) raises pyodbc.Error
StorageError(w) ==
    /\ pc[w] \in {"get_stage", "read", "write", "event"}
    /\ response' = [response EXCEPT ![w] = database_error("OperationalError")]
    /\ pc' = [pc EXCEPT ![w] = "done"]
    /\ UNCHANGED <<store, p, stage, i, pos, cls, processed, history, harness>>

\* the response is sent and the process is free for the next request
Return(w) ==
    /\ pc[w] = "done"
    /\ pc' = [pc EXCEPT ![w] = "idle"]
    /\ p' = [p EXCEPT ![w] = NoPayload]
    /\ stage' = [stage EXCEPT ![w] = NoStage]
    /\ i' = [i EXCEPT ![w] = 0]
    /\ pos' = [pos EXCEPT ![w] = None]
    /\ cls' = [cls EXCEPT ![w] = ""]
    /\ processed' = [processed EXCEPT ![w] = NoCounts]
    /\ response' = [response EXCEPT ![w] = NoResponse]
    /\ UNCHANGED <<store, nreq, newTally, completed, harness>>

\* history: the tables as the request found them, and whether the same stage
\* and batch have already been ingested to the end
Entry(w) ==
    /\ barcodes0' = barcodes
    /\ events0' = events
    /\ resub' = (<<p[w].stage_name, ensure_barcodes_nonempty(p[w].barcodes)>>
                    \in completed)
    /\ UNCHANGED <<failed, aborted>>

\* history: the request that has just ended in a 500, with the positions and
\* the length of the log it had found, and whether any request ended so
Exit ==
    /\ barcodes0' = <<>>
    /\ events0' = <<>>
    /\ resub' = FALSE
    /\ failed' = IF response[SeqWorker].status = 500
                  THEN [stage_name |-> p[SeqWorker].stage_name,
                        barcodes |-> p[SeqWorker].barcodes,
                        found |-> [b \in Barcodes |->
                                     current_barcode_position(barcodes0, b)],
                        logged |-> Len(events0)]
                  ELSE NoFailed
    /\ aborted' = (aborted \/ response[SeqWorker].status = 500)

entry == <<barcodes0, events0, resub, failed, aborted>>

\* requests handled by several server processes against one database
Next ==
    \E w \in Workers :
        \/ Receive(w)
        \/ Validate(w) /\ UNCHANGED entry
        \/ GetStage(w)
        \/ Read(w)
        \/ Write(w)
        \/ AddEvent(w)
        \/ StorageError(w)
        \/ Return(w) /\ UNCHANGED entry

Spec == Init /\ [][Next]_vars

\* requests executed one after another, each run to its response
SeqNext ==
    \/ Receive(SeqWorker)
    \/ Validate(SeqWorker) /\ Entry(SeqWorker)
    \/ GetStage(SeqWorker)
    \/ Read(SeqWorker)
    \/ Write(SeqWorker)
    \/ AddEvent(SeqWorker)
    \/ StorageError(SeqWorker)
    \/ Return(SeqWorker) /\ Exit

SeqSpec == Init /\ [][SeqNext]_vars

(***************************************************************************)
(* The runs of the scripts that write reels.db, one after another:         *)
(* push_to_sqlite(rows) of src/main.py, statement by statement, and        *)
(* csv_to_olddata.py. The sqlite3 connection opens a transaction at the    *)
(* first statement that changes a row and keeps it until commit(); a run   *)
(* that raises before commit() ends the process, and what it had changed   *)
(* is rolled back.                                                         *)
(***************************************************************************)
ingestvars == <<store, locals, history, c_existing, c_target, c_result>>

\* connect, current_timestamp = datetime.now().isoformat(), CREATE TABLE IF
\* NOT EXISTS x 3, SELECT value ... 'newDataTimestamp' / fetchone()
Connect ==
    /\ s_pc = "idle"
    /\ nrun < MaxRuns
    /\ \E r \in RowLists : s_rows' = r
    /\ current_timestamp' = isoformat([t |-> wallclock, tzinfo |-> "None"])
    /\ wallclock' = wallclock + 1
    /\ last_new_timestamp' = select_value(Metadata, "newDataTimestamp")
    /\ s_pc' = "keep"
    /\ nrun' = nrun + 1
    /\ prior' = [NewData |-> NewData, Metadata |-> Metadata, now |-> wallclock]
    /\ UNCHANGED <<NewData, OldData, Metadata, committed, pushes, ingestvars>>

\* if last_new_timestamp: INSERT OR REPLACE ... ('oldDataTimestamp', ?)
KeepOldTimestamp ==
    /\ s_pc = "keep"
    /\ Metadata' = IF last_new_timestamp # NoValue
                   THEN insert_or_replace(Metadata, "oldDataTimestamp",
                                          last_new_timestamp)
                   ELSE Metadata
    /\ s_pc' = "rotate"
    /\ UNCHANGED <<NewData, OldData, committed, wallclock, s_rows,
                   current_timestamp, last_new_timestamp, nrun, prior, pushes,
                   ingestvars>>

\* DELETE FROM OldData; INSERT INTO OldData SELECT * FROM NewData;
\* DELETE FROM NewData
Rotate ==
    /\ s_pc = "rotate"
    /\ OldData' = insert_select(delete_from(OldData), NewData)
    /\ NewData' = delete_from(NewData)
    /\ s_pc' = "fill"
    /\ UNCHANGED <<Metadata, committed, wallclock, s_rows, current_timestamp,
                   last_new_timestamp, nrun, prior, pushes, ingestvars>>

\* executemany(INSERT INTO NewData ..., rows);
\* INSERT OR REPLACE ... ('newDataTimestamp', current_timestamp)
Fill ==
    /\ s_pc = "fill"
    /\ NewData' = executemany_insert(NewData, s_rows)
    /\ Metadata' = insert_or_replace(Metadata, "newDataTimestamp",
                                     current_timestamp)
    /\ s_pc' = "commit"
    /\ UNCHANGED <<OldData, committed, wallclock, s_rows, current_timestamp,
                   last_new_timestamp, nrun, prior, pushes, ingestvars>>

\* conn.commit(); conn.close(); print
Commit ==
    /\ s_pc = "commit"
    /\ committed' = [NewData |-> NewData, OldData |-> OldData,
                     Metadata |-> Metadata]
    /\ s_pc' = "done"
    /\ pushes' = Append(pushes, [rows |-> s_rows, at |-> prior.now])
    /\ UNCHANGED <<NewData, OldData, Metadata, wallclock, s_rows,
                   current_timestamp, last_new_timestamp, nrun, prior,
                   ingestvars>>

\* push_to_sqlite returns to main
PushReturn ==
    /\ s_pc = "done"
    /\ s_pc' = "idle"
    /\ s_rows' = <<>>
    /\ current_timestamp' = NoValue
    /\ last_new_timestamp' = NoValue
    /\ prior' = NoPrior
    /\ UNCHANGED <<NewData, OldData, Metadata, committed, wallclock, nrun,
                   pushes, ingestvars>>

\* a statement raises sqlite3.Error: the run ends without commit()
PushFails ==
    /\ s_pc \in {"keep", "rotate", "fill", "commit"}
    /\ NewData' = committed.NewData
    /\ OldData' = committed.OldData
    /\ Metadata' = committed.Metadata
    /\ s_pc' = "idle"
    /\ s_rows' = <<>>
    /\ current_timestamp' = NoValue
    /\ last_new_timestamp' = NoValue
    /\ prior' = NoPrior
    /\ UNCHANGED <<committed, wallclock, nrun, pushes, ingestvars>>

\* csv_to_olddata.py: DELETE FROM OldData, insert the records of the CSV
\* that have an item code, commit
LoadCsv ==
    /\ s_pc = "idle"
    /\ nrun < MaxRuns
    /\ \E f \in CsvFiles :
          OldData' = executemany_insert(delete_from(OldData), csv_rows(f))
    /\ committed' = [committed EXCEPT !.OldData = OldData']
    /\ nrun' = nrun + 1
    /\ UNCHANGED <<NewData, Metadata, wallclock, s_pc, s_rows,
                   current_timestamp, last_new_timestamp, prior, pushes,
                   ingestvars>>

ReelsNext ==
    \/ Connect
    \/ KeepOldTimestamp
    \/ Rotate
    \/ Fill
    \/ Commit
    \/ PushReturn
    \/ PushFails
    \/ LoadCsv

ReelsSpec == Init /\ [][ReelsNext]_vars

(***************************************************************************)
(* Harness for the pure classifier: inputs drawn in the initial state.     *)
(***************************************************************************)
ClassifyInit ==
    /\ InitStore
    /\ InitLocals
    /\ InitHistory
    /\ c_existing \in {None} \cup (0 .. MaxPos)
    /\ c_target \in 0 .. MaxPos
    /\ c_result = ""
    /\ InitReels

Classify ==
    /\ c_result = ""
    /\ c_result' = classify_barcode(c_existing, c_target)
    /\ UNCHANGED <<store, locals, history, c_existing, c_target, reels>>

ClassifySpec == ClassifyInit /\ [][Classify]_vars

(***************************************************************************)
(* Two requests racing on a store that already holds A and B at Receiving: *)
(* the state left by ingest(Receiving, [A, B]) on the empty store.         *)
(***************************************************************************)
RaceInit ==
    /\ barcodes = << [barcode |-> <<"A">>, stage |-> "Receiving",
                      created_date |-> 1, last_updated |-> 1],
                     [barcode |-> <<"B">>, stage |-> "Receiving",
                      created_date |-> 2, last_updated |-> 2] >>
    /\ events = << [barcode |-> <<"A">>, stage |-> "Receiving",
                    event_time |-> <<1, "-06:00">>],
                   [barcode |-> <<"B">>, stage |-> "Receiving",
                    event_time |-> <<1, "-06:00">>] >>
    /\ clock = 3
    /\ InitLocals
    /\ nreq = 0
    /\ barcodes0 = <<>>
    /\ events0 = <<>>
    /\ newTally = [b \in Barcodes |-> 1]
    /\ completed = { <<"Receiving", << <<"A">>, <<"B">> >> >> }
    /\ resub = FALSE
    /\ failed = NoFailed
    /\ aborted = FALSE
    /\ c_existing = None
    /\ c_target = 0
    /\ c_result = ""
    /\ InitReels

RaceSpec == RaceInit /\ [][Next]_vars

(***************************************************************************)
(* Requests handled by one server process. The handlers are tasks of one   *)
(* event loop: a task that has entered the body of ingest keeps the loop   *)
(* until it returns or reaches an await, and while it keeps the loop no    *)
(* other task of the process takes a step. The store is the one of         *)
(* RaceInit, on which two processes race.                                  *)
(***************************************************************************)
\* mutant: every database call of the body is awaited
AwaitPoints_async == {"read", "write", "event"}

\* the statements of async def ingest that are awaits: there is none
AwaitPoints == {}

\* between resolving the stage and returning
InHandler(w) == pc[w] \in {"read", "write", "event"}

\* the task is running the body and is not suspended at an await
Holding(w) == InHandler(w) /\ pc[w] \notin AwaitPoints

LoopNext ==
    \E w \in Workers :
        /\ \A v \in Workers \ {w} : ~Holding(v)
        /\ \/ Receive(w)
           \/ Validate(w) /\ UNCHANGED entry
           \/ GetStage(w)
           \/ Read(w)
           \/ Write(w)
           \/ AddEvent(w)
           \/ StorageError(w)
           \/ Return(w) /\ UNCHANGED entry

LoopSpec == RaceInit /\ [][LoopNext]_vars

(***************************************************************************)
(* Requests executed one after another on a store that already holds A at  *)
(* Receiving: the state left by ingest(Receiving, [A]) on the empty store. *)
(***************************************************************************)
StockedInit ==
    /\ barcodes = << [barcode |-> <<"A">>, stage |-> "Receiving",
                      created_date |-> 1, last_updated |-> 1] >>
    /\ events = << [barcode |-> <<"A">>, stage |-> "Receiving",
                    event_time |-> <<1, "-06:00">>] >>
    /\ clock = 2
    /\ InitLocals
    /\ nreq = 0
    /\ barcodes0 = <<>>
    /\ events0 = <<>>
    /\ newTally = [b \in Barcodes |-> IF b = <<"A">> THEN 1 ELSE 0]
    /\ completed = { <<"Receiving", << <<"A">> >> >> }
    /\ resub = FALSE
    /\ failed = NoFailed
    /\ aborted = FALSE
    /\ c_existing = None
    /\ c_target = 0
    /\ c_result = ""
    /\ InitReels

StockedSpec == StockedInit /\ [][SeqNext]_vars

(***************************************************************************)
(* Vocabulary of the properties.                                           *)
(***************************************************************************)
\* the rows a table holds for a barcode
RowsOf(rows, b) == { rows[k] : k \in { j \in DOMAIN rows : rows[j].barcode = b } }

\* the catalog position of the stage stored for a barcode; None without a row
PosOf(rows, b) ==
    LET ps == { Position(r.stage) : r \in RowsOf(rows, b) }
    IN  IF ps = {} THEN None ELSE CHOOSE x \in ps : \A y \in ps : y <= x

InBatch(batch, b) == \E k \in DOMAIN batch : batch[k] = b

\* entry k of the batch is the first occurrence of its barcode
FirstOccurrence(batch, k) == \A j \in 1 .. (k - 1) : batch[j] # batch[k]

\* the request of the sequential process has returned 200
Succeeded ==
    /\ pc[SeqWorker] = "done"
    /\ response[SeqWorker].status = 200

Batch == p[SeqWorker].barcodes
Target == Position(p[SeqWorker].stage_name)

(***************************************************************************)
(* C1. Monotonicity: when ingest calls run one after another, the catalog  *)
(* position of the stage stored for a barcode never decreases from one     *)
(* state to the next (a barcode without a row counts as below every stage).*)
(***************************************************************************)
C1_Monotonic ==
    [][\A b \in Barcodes : PosOf(barcodes', b) >= PosOf(barcodes, b)]_vars

\* a lower stage was reported for a barcode and the ingest left it in place
C1_Witness ==
    /\ Succeeded
    /\ \E b \in Barcodes :
          /\ InBatch(Batch, b)
          /\ PosOf(barcodes0, b) > Target
          /\ PosOf(barcodes, b) = PosOf(barcodes0, b)

(***************************************************************************)
(* C2. Per-barcode atomicity: with requests of several processes in        *)
(* flight, the write a process makes for a barcode, decided on the         *)
(* position it read, never lowers the position stored for any barcode.     *)
(***************************************************************************)
C2_WriteNeverLowers ==
    [][\A w \in Workers :
          (pc[w] = "write" /\ pc'[w] = "event")
             => \A b \in Barcodes : PosOf(barcodes', b) >= PosOf(barcodes, b)]_vars

(***************************************************************************)
(* C3. classify_barcode is a total three-way decision: "new" exactly when  *)
(* the existing position is absent, "old" exactly when it is present and   *)
(* below the target, "same" exactly when it is present and at or above it. *)
(***************************************************************************)
C3_ClassifyThreeWay ==
    c_result # "" =>
        /\ c_result \in {"new", "old", "same"}
        /\ c_result = "new" <=> c_existing = None
        /\ c_result = "old" <=> (c_existing # None /\ c_existing < c_target)
        /\ c_result = "same" <=> (c_existing # None /\ c_existing >= c_target)

C3_Witness ==
    /\ c_result = "same"
    /\ c_existing = c_target
    /\ c_target > 0

(***************************************************************************)
(* C4. A successful ingest of stage S leaves every barcode of the batch    *)
(* that had no row, or a row below S, at S; leaves every barcode at or     *)
(* above S, and every barcode outside the batch, with its rows as they     *)
(* were; and returns new = first-seen barcodes, old = advanced barcodes,   *)
(* same = entries that left the store in place.                            *)
(***************************************************************************)
C4_PostState ==
    Succeeded =>
        /\ \A b \in Barcodes :
              IF InBatch(Batch, b)
              THEN IF PosOf(barcodes0, b) < Target
                   THEN \A r \in RowsOf(barcodes, b) :
                            r.stage = p[SeqWorker].stage_name
                   ELSE RowsOf(barcodes, b) = RowsOf(barcodes0, b)
              ELSE RowsOf(barcodes, b) = RowsOf(barcodes0, b)
        /\ \A b \in Barcodes : InBatch(Batch, b) => RowsOf(barcodes, b) # {}
        /\ response[SeqWorker].counts.new =
              Cardinality({ k \in DOMAIN Batch :
                  FirstOccurrence(Batch, k) /\ PosOf(barcodes0, Batch[k]) = None })
        /\ response[SeqWorker].counts.old =
              Cardinality({ k \in DOMAIN Batch :
                  /\ FirstOccurrence(Batch, k)
                  /\ PosOf(barcodes0, Batch[k]) # None
                  /\ PosOf(barcodes0, Batch[k]) < Target })
        /\ response[SeqWorker].counts.same =
              Cardinality({ k \in DOMAIN Batch :
                  \/ ~FirstOccurrence(Batch, k)
                  \/ PosOf(barcodes0, Batch[k]) >= Target })

\* Scenario B: one barcode advanced, another barcode of the store not in the batch
C4_Witness ==
    /\ Succeeded
    /\ response[SeqWorker].counts = [new |-> 0, old |-> 1, same |-> 0]
    /\ \E b \in Barcodes : ~InBatch(Batch, b) /\ RowsOf(barcodes, b) # {}

(***************************************************************************)
(* C5. Every ingest call with a validated batch of N entries appends       *)
(* exactly N rows to the event log (stated here for the calls that no      *)
(* storage failure cuts short, which the calls of the claim include).      *)
(***************************************************************************)
C5_EveryCallLogsN ==
    (pc[SeqWorker] = "done" /\ response[SeqWorker].status \notin {422, 500})
        => Len(events) = Len(events0) + Len(Batch)

(***************************************************************************)
(* C5, amended. Every ingest call that returns successfully appends        *)
(* exactly one row per entry of its batch, in the order of the batch and   *)
(* after the rows already logged, whatever the classifications were.       *)
(***************************************************************************)
C5_SuccessfulCallLogsN ==
    Succeeded =>
        /\ Len(events) = Len(events0) + Len(Batch)
        /\ SubSeq(events, 1, Len(events0)) = events0
        /\ \A k \in DOMAIN Batch : events[Len(events0) + k].barcode = Batch[k]

\* a batch whose entries were classified differently
C5_Witness ==
    /\ Succeeded
    /\ response[SeqWorker].counts.new = 1
    /\ response[SeqWorker].counts.same = 1
    /\ events0 # <<>>

(***************************************************************************)
(* C6. Idempotence of classification: no barcode is counted NEW more than  *)
(* once over a sequence of ingests, and an ingest of a stage and batch     *)
(* that have already been ingested to the end counts every entry NOOP.     *)
(***************************************************************************)
C6_Idempotent ==
    /\ \A b \in Barcodes : newTally[b] <= 1
    /\ (Succeeded /\ resub) =>
          response[SeqWorker].counts = [new |-> 0, old |-> 0, same |-> Len(Batch)]

\* the same batch and stage ingested a second time
C6_Witness ==
    /\ Succeeded
    /\ resub
    /\ \A b \in Barcodes : InBatch(Batch, b) => newTally[b] = 1
    /\ Len(Batch) = 2

(***************************************************************************)
(* C7. Stale report: when the stage reported for a barcode is at or below  *)
(* the one stored, the barcode table is not written, and one event with    *)
(* the barcode, the reported stage and the request's event time is         *)
(* appended.                                                               *)
(***************************************************************************)
C7_StaleReport ==
    [][LET w == SeqWorker
           b == p[w].barcodes[i[w]]
       IN  (cls[w] = "same" /\ pc[w] \in {"write", "event"})
           => /\ PosOf(barcodes, b) >= Position(p[w].stage_name)
              /\ barcodes' = barcodes
              /\ (pc[w] = "event" /\ i'[w] # i[w])
                    => /\ Len(events') = Len(events) + 1
                       /\ SubSeq(events', 1, Len(events)) = events
                       /\ events'[Len(events')].barcode = b
                       /\ events'[Len(events')].stage = p[w].stage_name
                       /\ events'[Len(events')].event_time[1] = p[w].event_time.t]_vars

\* an event logged for a stage below the one its barcode is stored at
C7_Witness ==
    /\ Succeeded
    /\ response[SeqWorker].counts.same = 1
    /\ LET e == events[Len(events)]
       IN  /\ e.stage = p[SeqWorker].stage_name
           /\ PosOf(barcodes, e.barcode) > Position(e.stage)
           /\ RowsOf(barcodes, e.barcode) = RowsOf(barcodes0, e.barcode)

(***************************************************************************)
(* C8. Unknown stage: a request whose stage name is not in the catalog     *)
(* ends with 404 (or, when the database itself fails, with the 500 of the  *)
(* storage error), never with a success, and leaves both tables as they    *)
(* were; and 404 is returned for no other request.                         *)
(***************************************************************************)
C8_UnknownStage ==
    LET r == response[SeqWorker]
    IN  /\ (pc[SeqWorker] = "done" /\ r.status # 422
                /\ p[SeqWorker].stage_name \notin StageNames)
              => /\ r.status = 404 \/ (r.status = 500 /\ r.detail = "OperationalError")
                 /\ barcodes = barcodes0
                 /\ events = events0
        /\ r.status = 404 => p[SeqWorker].stage_name \notin StageNames

C8_Witness ==
    /\ pc[SeqWorker] = "done"
    /\ response[SeqWorker].status = 404
    /\ p[SeqWorker].stage_name = "Unknown"
    /\ barcodes # <<>>
    /\ events # <<>>

(***************************************************************************)
(* C9. Input validation: the entries of the barcodes list are trimmed and  *)
(* the empty and whitespace-only ones dropped; when nothing remains the    *)
(* request is rejected (422) with no statement run and no table changed;   *)
(* every barcode an accepted request processes is non-empty and trimmed.   *)
(***************************************************************************)
\* the string has a character that is not whitespace
HasInk(s) == \E k \in DOMAIN s : s[k] \notin Whitespace

\* the string from its first to its last non-whitespace character
Core(s) ==
    LET ink == { k \in DOMAIN s : s[k] \notin Whitespace }
        lo == CHOOSE k \in ink : \A j \in ink : k <= j
        hi == CHOOSE k \in ink : \A j \in ink : j <= k
    IN  SubSeq(s, lo, hi)

IsTrimmed(s) == s # <<>> /\ s[1] \notin Whitespace /\ s[Len(s)] \notin Whitespace

Kept(raw) ==
    LET inked == SelectSeq(raw, HasInk)
    IN  [ k \in DOMAIN inked |-> Core(inked[k]) ]

C9_Validation ==
    [][LET w == SeqWorker
       IN  /\ (pc[w] = "validate" /\ pc'[w] # "validate")
                => /\ UNCHANGED store
                   /\ IF Kept(p[w].barcodes) = <<>> \/ p[w].stage_name = ""
                      THEN pc'[w] = "done" /\ response'[w].status = 422
                      ELSE /\ pc'[w] = "get_stage"
                           /\ p'[w].barcodes = Kept(p[w].barcodes)
                           /\ p'[w].stage_name = p[w].stage_name
           /\ response[w].status = 422 => UNCHANGED store
           /\ pc[w] \in {"get_stage", "read", "write", "event"}
                => \A k \in DOMAIN p[w].barcodes : IsTrimmed(p[w].barcodes[k])
           /\ \A k \in DOMAIN barcodes' : IsTrimmed(barcodes'[k].barcode)
           /\ \A k \in DOMAIN events' : IsTrimmed(events'[k].barcode)]_vars

\* a list of blank entries rejected while the tables hold rows
C9_Witness ==
    /\ pc[SeqWorker] = "done"
    /\ response[SeqWorker].status = 422
    /\ p[SeqWorker].stage_name \in StageNames
    /\ p[SeqWorker].barcodes = << <<" ">> >>
    /\ barcodes = barcodes0
    /\ barcodes # <<>>

(***************************************************************************)
(* C10. Uniqueness: the barcode table holds at most one row per barcode,   *)
(* also when a batch repeats an unseen barcode and when two requests in    *)
(* flight both report a barcode that has no row yet.                       *)
(***************************************************************************)
C10_OneRowPerBarcode ==
    \A b \in Barcodes :
        Cardinality({ k \in DOMAIN barcodes : barcodes[k].barcode = b }) <= 1

\* two requests classified the same unseen barcode NEW; the second INSERT failed
C10_Witness ==
    \E w \in Workers, v \in Workers :
        /\ w # v
        /\ pc[w] = "done"
        /\ response[w].detail = "IntegrityError"
        /\ cls[w] = "new"
        /\ cls[v] = "new"
        /\ p[v].barcodes[1] = p[w].barcodes[i[w]]
        /\ RowsOf(barcodes, p[w].barcodes[i[w]]) # {}

(***************************************************************************)
(* C11. The event log is append-only: every step leaves the rows already   *)
(* in the log in place and unchanged and adds at most one row at the end;  *)
(* the added row carries the barcode being processed, the stage name the   *)
(* request reported and the event time the caller supplied (with the       *)
(* caller's offset, or the default zone's when the caller gave none).      *)
(***************************************************************************)
C11_AppendOnly ==
    [][ /\ Len(events') \in {Len(events), Len(events) + 1}
        /\ SubSeq(events', 1, Len(events)) = events
        /\ Len(events') = Len(events) + 1 =>
              LET e == events'[Len(events')]
                  req == p[SeqWorker]
              IN  /\ e.barcode = req.barcodes[i[SeqWorker]]
                  /\ e.stage = req.stage_name
                  /\ e.event_time[1] = req.event_time.t
                  /\ e.event_time[2] = IF req.event_time.tzinfo = "UTC"
                                       THEN "+00:00" ELSE "-06:00"
      ]_vars

\* a later request appended to a log that already held rows, with an event
\* time that is not the time of processing
C11_Witness ==
    /\ Len(events0) >= 1
    /\ Len(events) > Len(events0)
    /\ SubSeq(events, 1, Len(events0)) = events0
    /\ events[Len(events)].event_time[1] # clock
    /\ events[Len(events)].event_time[1] # clock - 1

(***************************************************************************)
(* C12. ADVANCE frame: the write of an entry classified ADVANCE changes    *)
(* only the stage and the last-updated time of the barcode's own row: the  *)
(* row keeps its barcode and its creation time, no row is added or         *)
(* removed, and the row of every other barcode is left as it was.          *)
(***************************************************************************)
C12_AdvanceFrame ==
    [][ (pc[SeqWorker] = "write" /\ cls[SeqWorker] = "old"
                                 /\ pc'[SeqWorker] = "event") =>
          LET b == p[SeqWorker].barcodes[i[SeqWorker]]
          IN  /\ Len(barcodes') = Len(barcodes)
              /\ \A k \in DOMAIN barcodes :
                    IF barcodes[k].barcode = b
                    THEN /\ barcodes'[k].barcode = b
                         /\ barcodes'[k].created_date = barcodes[k].created_date
                         /\ barcodes'[k].stage = p[SeqWorker].stage_name
                         /\ barcodes'[k].last_updated = clock
                    ELSE barcodes'[k] = barcodes[k]
      ]_vars

\* a barcode was advanced, after its creation, next to another barcode's row
C12_Witness ==
    /\ pc[SeqWorker] = "event"
    /\ cls[SeqWorker] = "old"
    /\ Len(barcodes) >= 2
    /\ \E k \in DOMAIN barcodes :
          /\ barcodes[k].barcode = p[SeqWorker].barcodes[i[SeqWorker]]
          /\ barcodes[k].stage = p[SeqWorker].stage_name
          /\ barcodes[k].created_date < barcodes[k].last_updated
          /\ barcodes0[k].stage # barcodes[k].stage

(***************************************************************************)
(* C13. Mid-batch failure: a request that ends before the last entry of    *)
(* its batch was processed, at entry k, reports 500 with the error of the  *)
(* storage layer and no counts; the log holds one new row for each of the  *)
(* entries before k and none for a later one, the rows of the barcodes     *)
(* that occur only after entry k are as the request found them, and the    *)
(* only step left to the request is to send the response, which touches    *)
(* neither table.                                                          *)
(***************************************************************************)
\* the request ended with entries of its batch left unprocessed
Interrupted ==
    /\ pc[SeqWorker] = "done"
    /\ response[SeqWorker].status \notin {404, 422}
    /\ i[SeqWorker] <= Len(Batch)

C13_FailureStops ==
    [][ Interrupted =>
          LET k == i[SeqWorker]
          IN  /\ response[SeqWorker].status = 500
              /\ response[SeqWorker].detail = "OperationalError"
              /\ response[SeqWorker].counts = NoCounts
              /\ Len(events) = Len(events0) + (IF k = 0 THEN 0 ELSE k - 1)
              /\ \A j \in 1 .. (Len(events) - Len(events0)) :
                    events[Len(events0) + j].barcode = Batch[j]
              /\ \A b \in Barcodes :
                    (\A j \in 1 .. k : Batch[j] # b) =>
                        RowsOf(barcodes, b) = RowsOf(barcodes0, b)
              /\ pc'[SeqWorker] = "idle"
              /\ barcodes' = barcodes
              /\ events' = events
      ]_vars

\* the second of two entries failed: the first is stored and logged, the
\* second has neither row nor event
C13_Witness ==
    /\ Interrupted
    /\ i[SeqWorker] = 2
    /\ Batch[2] # Batch[1]
    /\ RowsOf(barcodes0, Batch[1]) = {}
    /\ RowsOf(barcodes, Batch[1]) # {}
    /\ RowsOf(barcodes, Batch[2]) = {}
    /\ Len(events) = Len(events0) + 1
    /\ response[SeqWorker].status = 500

(***************************************************************************)
(* C14. Retry convergence: when a request was interrupted by a storage     *)
(* failure and the same stage and batch are submitted again and run to     *)
(* the end, every barcode is stored at the stage one uninterrupted run of  *)
(* the request would have left it at, counted from the store the           *)
(* interrupted request had found: the target for a barcode of the batch    *)
(* that was below it or absent, the stage it had otherwise. What the       *)
(* interruption leaves behind is in the log only: the events of the        *)
(* entries the first attempt got through, logged a second time.            *)
(***************************************************************************)
\* the request that has just succeeded repeats the interrupted one before it
Retried ==
    /\ Succeeded
    /\ failed.stage_name = p[SeqWorker].stage_name
    /\ failed.barcodes = Batch

\* the position an uninterrupted run leaves b at, from the positions found
OneRun(found, b) ==
    LET before == IF found[b] = {} THEN None ELSE CHOOSE x \in found[b] : TRUE
    IN  IF InBatch(Batch, b) /\ before < Target THEN Target ELSE before

C14_RetryConverges ==
    Retried =>
        /\ \A b \in Barcodes : PosOf(barcodes, b) = OneRun(failed.found, b)
        /\ Len(events) >= failed.logged + Len(Batch)
        /\ Len(events) < failed.logged + 2 * Len(Batch)
        /\ Len(events) = Len(events0) + Len(Batch)

\* the first attempt had advanced and logged the first of two barcodes when
\* it failed; the retry found it advanced, stored the second as new and
\* logged both
C14_Witness ==
    /\ Retried
    /\ Len(Batch) = 2
    /\ Batch[1] # Batch[2]
    /\ failed.found[Batch[1]] = {0}
    /\ failed.found[Batch[2]] = {}
    /\ Target = 2
    /\ PosOf(barcodes0, Batch[1]) = Target
    /\ RowsOf(barcodes0, Batch[2]) = {}
    /\ RowsOf(barcodes, Batch[2]) # {}
    /\ Len(events0) = failed.logged + 1
    /\ Len(events) = failed.logged + 3

(***************************************************************************)
(* C15. No de-duplication inside a batch: a barcode that the body lists k  *)
(* times (after trimming) is in the validated batch k times, and each of   *)
(* its entries is looked up, classified and logged. An entry is looked up  *)
(* in the store as the entries before it left it; the first entry of a     *)
(* barcode is classified by the state the request found (NEW, ADVANCE or   *)
(* NOOP), every later entry of it is classified NOOP, and a request that   *)
(* returns 200 has appended k events for the barcode.                      *)
(***************************************************************************)
Occurrences(seq, b) == Cardinality({ k \in DOMAIN seq : seq[k] = b })

C15_NoDedup ==
    [][LET w == SeqWorker
       IN  /\ (pc[w] = "validate" /\ pc'[w] = "get_stage") =>
                \A b \in Barcodes :
                    Occurrences(p'[w].barcodes, b) =
                        Cardinality({ k \in DOMAIN p[w].barcodes :
                                        /\ HasInk(p[w].barcodes[k])
                                        /\ Core(p[w].barcodes[k]) = b })
           /\ (pc[w] = "read" /\ pc'[w] = "write") =>
                LET k == i[w]
                    b == Batch[k]
                    found == PosOf(barcodes0, b)
                IN  /\ pos'[w] = PosOf(barcodes, b)
                    /\ cls'[w] = IF ~FirstOccurrence(Batch, k) THEN "same"
                                 ELSE IF found = None THEN "new"
                                 ELSE IF found < Target THEN "old"
                                 ELSE "same"
           /\ (pc'[w] = "done" /\ response'[w].status = 200) =>
                \A b \in Barcodes :
                    Cardinality({ j \in (Len(events0') + 1) .. Len(events') :
                                    events'[j].barcode = b })
                        = Occurrences(p'[w].barcodes, b)
      ]_vars

\* an unseen barcode listed twice: inserted at its first entry, found in
\* place at its second, logged twice
C15_Witness ==
    /\ Succeeded
    /\ Len(Batch) = 2
    /\ Batch[1] = Batch[2]
    /\ RowsOf(barcodes0, Batch[1]) = {}
    /\ response[SeqWorker].counts = [new |-> 1, old |-> 0, same |-> 1]
    /\ Len(events) = Len(events0) + 2
    /\ events[Len(events)].barcode = Batch[1]
    /\ events[Len(events) - 1].barcode = Batch[1]

(***************************************************************************)
(* C16. Independence within a batch: for a request that returned 200,      *)
(* running the loop from the tables the request found over any permutation *)
(* of its batch ends with the barcode table the request left (the same     *)
(* barcodes, each at the same stage; the write times are readings of the   *)
(* clock and are not compared), with the same multiset of appended events  *)
(* and with the counts the request returned.                               *)
(***************************************************************************)
\* the permutations of 1 .. n
Perms(n) ==
    { f \in [1 .. n -> 1 .. n] : \A j, k \in 1 .. n : f[j] = f[k] => j = k }

Permuted(seq, f) == [ k \in DOMAIN seq |-> seq[f[k]] ]

\* the (barcode, stage) pairs a table holds, and how many rows hold them
Stored(rows) ==
    [ size |-> Len(rows),
      pairs |-> { <<rows[k].barcode, rows[k].stage>> : k \in DOMAIN rows } ]

SameMultiset(s, t) ==
    /\ Len(s) = Len(t)
    /\ \A k \in DOMAIN s :
          Cardinality({ j \in DOMAIN s : s[j] = s[k] })
              = Cardinality({ j \in DOMAIN t : t[j] = s[k] })

C16_OrderIndependent ==
    Succeeded =>
        \A f \in Perms(Len(Batch)) :
            LET run == ingest_loop(barcodes0, <<>>, NoCounts, stage[SeqWorker],
                                   Permuted(Batch, f),
                                   p[SeqWorker].event_time, 0)
            IN  /\ Stored(run.barcodes) = Stored(barcodes)
                /\ SameMultiset(run.events,
                                SubSeq(events, Len(events0) + 1, Len(events)))
                /\ run.counts = response[SeqWorker].counts

\* a batch of two barcodes, one advanced and one new, whose other order is a
\* different list
C16_Witness ==
    /\ Succeeded
    /\ Len(Batch) = 2
    /\ Batch[1] # Batch[2]
    /\ response[SeqWorker].counts = [new |-> 1, old |-> 1, same |-> 0]
    /\ Len(barcodes) = 2
    /\ Len(events) = Len(events0) + 2

(***************************************************************************)
(* C17. State/log agreement: whenever no request is in the middle of an    *)
(* entry (the process is idle or has its response ready, also a 500),      *)
(* every row of the barcode table has a supporting event: an event of the  *)
(* log with the row's barcode and the row's stage.                         *)
(***************************************************************************)
C17_StateLogAgreement ==
    pc[SeqWorker] \in {"idle", "done"} =>
        \A k \in DOMAIN barcodes :
            \E j \in DOMAIN events :
                /\ events[j].barcode = barcodes[k].barcode
                /\ events[j].stage = barcodes[k].stage

(***************************************************************************)
(* C18. Running maximum: when the requests so far ran one after another    *)
(* and none was cut short by a storage failure, then between requests a    *)
(* barcode contained in the batch of some completed ingest is in the log   *)
(* and is stored at the position that is the maximum of the targets of the *)
(* completed ingests that contained it, whatever their order; a barcode    *)
(* no completed ingest contained has neither a row nor an event.           *)
(***************************************************************************)
\* the target positions of the completed ingests whose batch contained b
TargetsOf(b) ==
    { Position(c[1]) : c \in { d \in completed : InBatch(d[2], b) } }

Logged(b) == \E j \in DOMAIN events : events[j].barcode = b

C18_RunningMaximum ==
    (pc[SeqWorker] = "idle" /\ ~aborted) =>
        \A b \in Barcodes :
            IF TargetsOf(b) = {}
            THEN RowsOf(barcodes, b) = {} /\ ~Logged(b)
            ELSE /\ Logged(b)
                 /\ PosOf(barcodes, b) \in TargetsOf(b)
                 /\ \A t \in TargetsOf(b) : t <= PosOf(barcodes, b)

\* a barcode reported at a later stage first and at an earlier stage after,
\* stored at the later one, next to a barcode never reported
C18_Witness ==
    /\ pc[SeqWorker] = "idle"
    /\ ~aborted
    /\ \E b \in Barcodes :
          /\ Cardinality(TargetsOf(b)) = 2
          /\ PosOf(barcodes, b) = 2
          /\ Position(events[Len(events)].stage) < 2
          /\ events[Len(events)].barcode = b
    /\ \E b \in Barcodes : TargetsOf(b) = {} /\ RowsOf(barcodes, b) = {}

(***************************************************************************)
(* C19. Count accounting: for a request that returned 200 the three counts *)
(* add up to the number of entries of the validated batch, the count of    *)
(* new is the number of rows the table gained, the count of old is the     *)
(* number of rows the request found and left changed (each row is updated  *)
(* at most once by one request), no row it found is gone, and the stage    *)
(* and position returned are the request's stage name and its position in  *)
(* the catalog.                                                            *)
(***************************************************************************)
C19_CountAccounting ==
    Succeeded =>
        LET r == response[SeqWorker]
        IN  /\ r.counts.new + r.counts.old + r.counts.same = Len(Batch)
            /\ Len(barcodes) = Len(barcodes0) + r.counts.new
            /\ Cardinality({ k \in DOMAIN barcodes0 : barcodes[k] # barcodes0[k] })
                  = r.counts.old
            /\ \A k \in DOMAIN barcodes0 :
                  barcodes[k].barcode = barcodes0[k].barcode
            /\ r.stage = p[SeqWorker].stage_name
            /\ \E s \in Stages : s.stage_name = r.stage /\ s.position = r.position

\* one request that inserted a row, updated another and left nothing else
C19_Witness ==
    /\ Succeeded
    /\ response[SeqWorker].counts = [new |-> 1, old |-> 1, same |-> 0]
    /\ Len(barcodes0) = 1
    /\ Len(barcodes) = 2
    /\ barcodes[1] # barcodes0[1]
    /\ response[SeqWorker].position = 2
    /\ response[SeqWorker].stage = "Shipped"

(***************************************************************************)
(* C20. No interleaving inside one process: with the requests handled as   *)
(* tasks of one event loop, at most one request is between resolving its   *)
(* stage and returning at any time, a request that enters the body of      *)
(* ingest while another request is waiting is the only one to take steps   *)
(* until its response is ready, and no write lowers the position stored    *)
(* for a barcode: the stale overwrite two processes produce on the same    *)
(* store does not occur.                                                   *)
(***************************************************************************)
C20_NoInterleaving ==
    [][ /\ \A w, v \in Workers : (InHandler(w)' /\ InHandler(v)') => w = v
        /\ \A w \in Workers :
              InHandler(w) => \A v \in Workers \ {w} : pc'[v] = pc[v]
        /\ \A b \in Barcodes : PosOf(barcodes', b) >= PosOf(barcodes, b)
      ]_vars

\* one request has advanced a barcode and not yet logged it while a second
\* request for the same barcode and another stage is validated and waiting
C20_Witness ==
    \E w, v \in Workers :
        /\ w # v
        /\ pc[w] = "event"
        /\ cls[w] = "old"
        /\ pc[v] = "get_stage"
        /\ InBatch(p[v].barcodes, p[w].barcodes[i[w]])
        /\ p[v].stage_name \in StageNames
        /\ p[v].stage_name # p[w].stage_name

(***************************************************************************)
(* C21. Rolling snapshot tables: when push_to_sqlite(rows) has committed,  *)
(* OldData holds exactly the rows NewData held when the call began,        *)
(* NewData holds exactly rows, newDataTimestamp is the clock reading the   *)
(* call took, and oldDataTimestamp is the newDataTimestamp the call found  *)
(* (left as it was when the call found none); what is committed is what    *)
(* the call wrote. Hence, counting the pushes that committed: NewData and  *)
(* newDataTimestamp are the rows and the time of the last one, OldData and *)
(* oldDataTimestamp are the rows and the time of the one before it, and    *)
(* after the first push OldData is empty and oldDataTimestamp is not set.  *)
(***************************************************************************)
\* the stored form of a clock reading
Stamp(t) == <<t, "">>

C21_RollingSnapshot ==
    s_pc = "done" =>
        LET n == Len(pushes)
            found == prior.Metadata["newDataTimestamp"]
        IN  /\ OldData = prior.NewData
            /\ NewData = s_rows
            /\ Metadata["newDataTimestamp"] = Stamp(prior.now)
            /\ Metadata["oldDataTimestamp"] =
                  IF found # NoValue THEN found
                  ELSE prior.Metadata["oldDataTimestamp"]
            /\ committed = [NewData |-> NewData, OldData |-> OldData,
                            Metadata |-> Metadata]
            /\ n >= 1
            /\ NewData = pushes[n].rows
            /\ Metadata["newDataTimestamp"] = Stamp(pushes[n].at)
            /\ IF n >= 2
               THEN /\ OldData = pushes[n - 1].rows
                    /\ Metadata["oldDataTimestamp"] = Stamp(pushes[n - 1].at)
               ELSE /\ OldData = <<>>
                    /\ Metadata["oldDataTimestamp"] = NoValue

\* the second push to commit, after a push in between had failed: the rows
\* of the first are in OldData, with its time, and the two snapshots differ
C21_Witness ==
    /\ s_pc = "done"
    /\ Len(pushes) = 2
    /\ nrun = 3
    /\ pushes[2].at > pushes[1].at + 1
    /\ pushes[1].rows # <<>>
    /\ pushes[2].rows # <<>>
    /\ pushes[1].rows # pushes[2].rows
    /\ OldData = pushes[1].rows
    /\ NewData = pushes[2].rows
    /\ Metadata["oldDataTimestamp"] = Stamp(pushes[1].at)
    /\ Metadata["newDataTimestamp"] = Stamp(pushes[2].at)

====
